---- MODULE Spec2Model ----
(***************************************************************************)
(* Verification model of the EigenAI provider of base-aerodrome-agent:     *)
(* the message adapter, the two-model fallback of doGenerate, the          *)
(* streaming path doStream, the trade execution driven from the reasoning  *)
(* model's decision, the executeSwap tool with its DRY_RUN guard, the      *)
(* signature verifier, invocations that overlap on one provider instance,  *)
(* and the scheduler of the trading loop.                                  *)
(*                                                                         *)
(* Text is modelled as a sequence of characters (one-character strings).   *)
(* The reasoning model's reply is modelled by what the parser sees of it:  *)
(* whether text surrounds the outermost {...}, whether that span parses,   *)
(* and the parsed object.                                                  *)
(***************************************************************************)
EXTENDS Integers, Sequences, FiniteSets, TLC

VARIABLES
    envDRY_RUN,     \* process.env.DRY_RUN, as read now
    envTEST_MODE,   \* process.env.TEST_MODE
    envNODE_ENV,    \* process.env.NODE_ENV
    ENV_CONFIG,     \* the object computed once, when config/index is loaded
    useApiKeyAuth,  \* createEigenAIModel: !!apiKey
    hasOnVerification, \* createEigenAIModel: options.onVerification given
    pc,             \* position of the operation in progress
    op,             \* which operation is in progress
    callPrompt,     \* callOptions.prompt of the operation in progress
    messages,       \* doGenerate/doStream: convertPromptToMessages(prompt)
    qwenContent,    \* callQwenForDecision: data.choices[0].message.content
    hasSignature,   \* callQwenForDecision: data.signature is truthy
    decision,       \* executeTradeFromDecision: the parsed decision object
    quoteResult,    \* executeTradeFromDecision: result of getQuoteTool.execute
    swapResult,     \* result of the last executeSwapTool.execute
    outcome,        \* how the operation ended: "none", "returned", "raised"
    resultText,     \* doGenerate: the text returned to the caller
    net,            \* what the operation in progress has sent so far
    stream,         \* doStream: the stream accumulator and emitted events
    verification,   \* verifySignature: its argument and its result
    invocations,    \* the invocations in progress on one provider instance
    loop            \* startTradingLoop: its timer and the runs of runIteration

vars == << envDRY_RUN, envTEST_MODE, envNODE_ENV, ENV_CONFIG, useApiKeyAuth,
           hasOnVerification, pc, op, callPrompt, messages, qwenContent, hasSignature,
           decision, quoteResult, swapResult, outcome, resultText, net, stream,
           verification, invocations, loop >>

-----------------------------------------------------------------------------
(* Bounds of the model *)

\* the largest number of tool calls in a conversation handed to the provider
MaxToolCalls == 9

\* the largest number of entries of trade_decisions in a reply
MaxDecisions == 2

\* the largest number of network chunks of one streamed response
MaxChunks == 3

\* tool calls of one conversation handed to the message adapter alone
MaxAdapterCalls == 3

\* request messages of one verification
MaxContents == 3

\* network chunks of one streamed response, when two invocations overlap
MaxConcurrentReads == 2

\* runs of runIteration started by one trading loop
MaxIterations == 3

\* entries of DEFAULT_TRADING_PAIRS
MaxPairs == 2

-----------------------------------------------------------------------------
(* Program constants *)

\* doGenerate: const MAX_TOOL_RESULTS = 8
MAX_TOOL_RESULTS == 8

\* amounts of USD are kept in tenths, so that 0.5 can be told from 1:
\* the threshold `amountUsd < 1` of executeTradeFromDecision
ONE_USD == 10

PRIMARY_MODEL == "gpt-oss-120b-f16"

-----------------------------------------------------------------------------
(* Text helpers *)

RECURSIVE Trim(_)
\* String.prototype.trim, on a sequence of characters
Trim(t) ==
    IF t = << >> THEN << >>
    ELSE IF Head(t) = " " THEN Trim(Tail(t))
    ELSE IF t[Len(t)] = " " THEN Trim(SubSeq(t, 1, Len(t) - 1))
    ELSE t

\* String.prototype.toUpperCase on the symbols the model uses
ToUpperCase(s) ==
    CASE s = "buy" -> "BUY"
      [] s = "sell" -> "SELL"
      [] s = "hold" -> "HOLD"
      [] s = "aero" -> "AERO"
      [] s = "weth" -> "WETH"
      [] OTHER -> s

-----------------------------------------------------------------------------
(* The message adapter *)

Msg(role, null, content, calls, callId) ==
    [role |-> role, null |-> null, content |-> content,
     tool_calls |-> calls, tool_call_id |-> callId]

Item(type, id, name, text) ==
    [type |-> type, toolCallId |-> id, toolName |-> name, text |-> text]

Part(role, text, items) == [role |-> role, text |-> text, items |-> items]

RECURSIVE JoinText(_)
\* part.content.map(c => c.type === 'text' ? c.text : '').join('')
JoinText(items) ==
    IF items = << >> THEN << >>
    ELSE (IF Head(items).type = "text" THEN Head(items).text ELSE << >>)
         \o JoinText(Tail(items))

\* one element of an assistant part's content (first pass)
AssistantItem(acc, c) ==
    IF c.type = "tool-call"
    THEN [acc EXCEPT !.toolCalls =
            Append(@, [id |-> c.toolCallId, name |-> c.toolName, arguments |-> c.text])]
    ELSE IF c.type = "text" /\ Trim(c.text) # << >> /\ Len(acc.toolCalls) = 0
    THEN [acc EXCEPT !.messages = Append(@, Msg("assistant", FALSE, c.text, << >>, 0))]
    ELSE acc

\* one element of a tool part's content (first pass): toolResults.set(id, ...)
ToolItem(acc, r) ==
    IF r.type = "tool-result"
    THEN [acc EXCEPT !.toolResults =
            (r.toolCallId :> r.text) @@ @]
    ELSE acc

RECURSIVE FoldItems(_, _, _)
FoldItems(acc, items, role) ==
    IF items = << >> THEN acc
    ELSE FoldItems(IF role = "assistant" THEN AssistantItem(acc, Head(items))
                   ELSE ToolItem(acc, Head(items)),
                   Tail(items), role)

\* one part of the prompt (first pass)
FirstPassPart(acc, part) ==
    CASE part.role = "system" ->
            [acc EXCEPT !.messages = Append(@, Msg("system", FALSE, part.text, << >>, 0))]
      [] part.role = "user" ->
            [acc EXCEPT !.messages =
                Append(@, Msg("user", FALSE, JoinText(part.items), << >>, 0))]
      [] part.role \in {"assistant", "tool"} -> FoldItems(acc, part.items, part.role)
      [] OTHER -> acc

RECURSIVE FirstPass(_, _)
FirstPass(acc, prompt) ==
    IF prompt = << >> THEN acc
    ELSE FirstPass(FirstPassPart(acc, Head(prompt)), Tail(prompt))

\* The accumulated shape passed on as it is: one assistant message carrying
\* every tool call, then the results.
SecondPassGrouped(msgs, toolCalls, toolResults) ==
    IF toolCalls = << >> THEN msgs
    ELSE LET matched == SelectSeq(toolCalls, LAMBDA tc : tc.id \in DOMAIN toolResults)
         IN  Append(msgs, Msg("assistant", TRUE, << >>, toolCalls, 0))
             \o [k \in 1..Len(matched) |->
                    Msg("tool", FALSE, toolResults[matched[k].id], << >>, matched[k].id)]

RECURSIVE SecondPassResultFirst(_, _, _)
\* Each result pushed before the assistant message of its call.
SecondPassResultFirst(msgs, toolCalls, toolResults) ==
    IF toolCalls = << >> THEN msgs
    ELSE LET tc == Head(toolCalls)
             withResult == IF tc.id \in DOMAIN toolResults
                           THEN Append(msgs,
                                       Msg("tool", FALSE, toolResults[tc.id], << >>, tc.id))
                           ELSE msgs
         IN  SecondPassResultFirst(
                 Append(withResult, Msg("assistant", TRUE, << >>, << tc >>, 0)),
                 Tail(toolCalls), toolResults)

RECURSIVE SecondPass(_, _, _)
\* each tool call gets its own assistant message, followed by its result
SecondPass(msgs, toolCalls, toolResults) ==
    IF toolCalls = << >> THEN msgs
    ELSE LET tc == Head(toolCalls)
             withCall == Append(msgs, Msg("assistant", TRUE, << >>, << tc >>, 0))
             withResult == IF tc.id \in DOMAIN toolResults
                           THEN Append(withCall,
                                       Msg("tool", FALSE, toolResults[tc.id], << >>, tc.id))
                           ELSE withCall
         IN  SecondPass(withResult, Tail(toolCalls), toolResults)

convertPromptToMessages(prompt) ==
    LET acc == FirstPass([messages |-> << >>, toolCalls |-> << >>,
                          toolResults |-> << >>], prompt)
    IN  SecondPass(acc.messages, acc.toolCalls, acc.toolResults)

-----------------------------------------------------------------------------
(* Conversations handed to the provider *)

ToolName(i, swapAt) == IF i = swapAt THEN "executeSwap" ELSE "getQuote"

\* The accumulated-turn prompt the agent framework builds: a system part, a
\* user part, ONE assistant part holding n tool calls and ONE tool part
\* holding the results of the first m of them.
MkPrompt(n, m, swapAt) ==
    << Part("system", << "s" >>, << >>),
       Part("user", << >>, << Item("text", 0, "", << "u" >>) >>) >>
    \o (IF n = 0 THEN << >>
        ELSE << Part("assistant", << >>,
                     [i \in 1..n |-> Item("tool-call", i, ToolName(i, swapAt), << "a" >>)]),
                Part("tool", << >>,
                     [i \in 1..m |-> Item("tool-result", i, "", << "r" >>)]) >>)

CallCounts == {0} \cup ((MAX_TOOL_RESULTS - 1)..MaxToolCalls)

\* n calls with n-1 or n results; executeSwap nowhere, first or last
\* the result text of an executeSwap call that DRY_RUN blocked:
\* {"success":false,"dryRun":true,"error":"DRY RUN: ..."}
BlockedResult == << "d" >>

\* a conversation at the budget whose first call, executeSwap, was blocked
SwapBlockedPrompt ==
    [MkPrompt(MAX_TOOL_RESULTS, MAX_TOOL_RESULTS, 1) EXCEPT ![4].items[1].text = BlockedResult]

Prompts ==
    UNION { { MkPrompt(n, m, k) : m \in { x \in {n - 1, n} : x >= 0 },
                                  k \in { x \in {0, 1, n} : x <= n } } : n \in CallCounts }
    \cup { SwapBlockedPrompt }

\* messages.filter((m) => m.role === 'tool').length
ToolResultCount(msgs) == Cardinality({ i \in 1..Len(msgs) : msgs[i].role = "tool" })

LimitReachedOff(toolResultCount) == toolResultCount > MAX_TOOL_RESULTS

\* doGenerate: if (toolResultCount >= MAX_TOOL_RESULTS)
LimitReached(toolResultCount) == toolResultCount >= MAX_TOOL_RESULTS

ExecuteSwapCalledNever(msgs) == FALSE

\* doGenerate: messages.some(m => m.role === 'assistant' &&
\*               m.tool_calls?.some(tc => tc.function.name === 'executeSwap'))
ExecuteSwapCalled(msgs) ==
    \E i \in 1..Len(msgs) :
        /\ msgs[i].role = "assistant"
        /\ \E j \in 1..Len(msgs[i].tool_calls) : msgs[i].tool_calls[j].name = "executeSwap"

-----------------------------------------------------------------------------
(* Decision texts *)

Note(tag, detail) == [tag |-> tag, detail |-> detail]

Entry(token, action, amount, via, rationale) ==
    [token |-> token, action |-> action, amount_usd |-> amount, via |-> via,
     rationale |-> rationale]

\* A text as the decision parser sees it. wrapped: characters stand outside
\* the span from the first "{" to the last "}" (or the text has no such span and
\* is not empty); body: that span is absent ("none"), does not parse ("bad"),
\* or parses to an object ("obj") with the given fields.
Text(wrapped, body, reasoning, hasTd, td) ==
    [wrapped |-> wrapped, body |-> body, reasoning |-> reasoning,
     hasTd |-> hasTd, td |-> td]

EmptyText == Text(FALSE, "none", "", FALSE, << >>)
Prose == Text(TRUE, "none", "", FALSE, << >>)

\* JSON.stringify of a decision object
Stringify(d) == Text(FALSE, "obj", d.reasoning, d.hasTd, d.td)

\* the text is a JSON document: JSON.parse(text) succeeds
JsonDecodable(t) == t.body = "obj" /\ ~t.wrapped

\* a note of a rationale: the text itself, or an annotation appended to it;
\* detail is a sequence of strings
HoldEntry(why) == Entry("ALL", "HOLD", 0, "NULL", << Note("text", << why >>) >>)

\* callQwenForDecision, !response.ok
HoldUnavailable ==
    Text(FALSE, "obj", "Reasoning model unavailable. Defaulting to HOLD.", TRUE,
         << HoldEntry("Reasoning model call failed - holding positions for safety") >>)

\* callQwenForDecision, empty reply
HoldEmpty ==
    Text(FALSE, "obj", "Qwen returned empty response. Defaulting to HOLD.", TRUE,
         << HoldEntry("Empty response from reasoning model") >>)

\* callQwenForDecision, catch
HoldError ==
    Text(FALSE, "obj", "Reasoning model error. Defaulting to HOLD.", TRUE,
         << HoldEntry("Error calling reasoning model - holding for safety") >>)

HoldDefaults == { HoldUnavailable, HoldEmpty, HoldError }

\* doGenerate, executeSwapCalled
ExecutedDecision ==
    Text(FALSE, "obj", "Trade was executed via executeSwap tool call.", TRUE,
         << Entry("EXECUTED", "EXECUTED", 0, "NULL",
                  << Note("text", << "Trade executed - see swap transaction logs for details" >>) >>) >>)

\* entries of trade_decisions a reasoning model may produce
Why == << Note("text", << "why" >>) >>
ModelEntries ==
    { Entry("AERO", "BUY", 500, "NULL", Why),      \* BUY $50 of AERO
      Entry("aero", "sell", ONE_USD, "weth", Why), \* sell exactly $1, lower case
      Entry("AERO", "BUY", 5, "NULL", Why),        \* $0.5: too small
      Entry("AERO", "SELL", 0, "NULL", Why),       \* amount 0 or missing
      Entry("ALL", "HOLD", 0, "NULL", Why),
      Entry("NULL", "BUY", 500, "NULL", Why),      \* token null or missing
      Entry("AERO", "BUY", 500, "NONSTRING", Why), \* via: true
      Entry("AERO", "NULL", 500, "NULL", Why) }    \* action missing

BuyEntry == Entry("AERO", "BUY", 500, "NULL", Why)

DecisionLists ==
    { << >> } \cup { << e >> : e \in ModelEntries }
    \cup (IF MaxDecisions >= 2
          THEN { << e, BuyEntry >> : e \in { BuyEntry, Entry("ALL", "HOLD", 0, "NULL", Why) } }
          ELSE { })
    \cup (IF MaxDecisions >= 3 THEN { << BuyEntry, BuyEntry, BuyEntry >> } ELSE { })

\* contents the reasoning model may answer with
ModelTexts ==
    { EmptyText, Prose,
      Text(FALSE, "bad", "", FALSE, << >>),        \* {"reasoning": "x", 
      Text(TRUE, "bad", "", FALSE, << >>),         \* I think {AERO} looks good
      Text(FALSE, "obj", "model", FALSE, << >>) }  \* {"reasoning": "..."}
    \cup { Text(FALSE, "obj", "model", TRUE, l) : l \in DecisionLists }
    \cup { Text(TRUE, "obj", "model", TRUE, << e >>) :  \* <think>..</think>{...}
             e \in { BuyEntry, Entry("ALL", "HOLD", 0, "NULL", Why) } }

-----------------------------------------------------------------------------
(* The tools the fallback engine drives *)

KnownTokens == { "USDC", "WETH", "AERO" }

\* resolveToken(symbol): metadata of a known token, null otherwise
resolveToken(symbol) == symbol \in KnownTokens

SwapResult(success, dryRun, txHash, error) ==
    [success |-> success, dryRun |-> dryRun, txHash |-> txHash, error |-> error]

NoSwapResult == SwapResult(FALSE, FALSE, "", "")

SwapRun(result, approvalTx, swapTx) ==
    [result |-> result, approvalTx |-> approvalTx, swapTx |-> swapTx]

SwapContext(tokenIn, tokenOut, amountIn, minAmountOut, via) ==
    [tokenIn |-> tokenIn, tokenOut |-> tokenOut, amountIn |-> amountIn,
     minAmountOut |-> minAmountOut, via |-> via]

\* what the wallet and the chain answer during one executeSwap
SwapWorlds ==
    [walletConfigured : BOOLEAN, chain : { "ok", "approve_reverts", "swap_reverts" }]

\* config/index: ENV_CONFIG, evaluated from process.env when the module loads
LoadEnvConfig(dryRunVar, testModeVar, nodeEnvVar) ==
    [dryRun |-> (dryRunVar = "true" \/ testModeVar = "true"),
     isTest |-> (nodeEnvVar = "test")]

\* executeSwapTool.execute: the result, and the transactions it sent
executeSwap(cfg, context, world) ==
    LET tokenIn == context.tokenIn
        tokenOut == context.tokenOut
        via == context.via
        isFromETH == tokenIn = "WETH"
    IN
    IF cfg.dryRun \/ cfg.isTest
    THEN SwapRun(SwapResult(FALSE, TRUE, "",
                 "DRY RUN: Trade was simulated but NOT executed. Set DRY_RUN=false to enable real trades."),
                 0, 0)
    ELSE IF ~world.walletConfigured
    THEN SwapRun(SwapResult(FALSE, FALSE, "",
                 "Wallet not configured. Set AGENT_PRIVATE_KEY environment variable."), 0, 0)
    ELSE IF ~resolveToken(tokenIn) \/ ~resolveToken(tokenOut)
    THEN SwapRun(SwapResult(FALSE, FALSE, "", "Unknown token"), 0, 0)
    ELSE IF via # "NULL" /\ ~resolveToken(via)
    THEN SwapRun(SwapResult(FALSE, FALSE, "", "Unknown intermediate token"), 0, 0)
    ELSE IF ~isFromETH /\ world.chain = "approve_reverts"
    THEN SwapRun(SwapResult(FALSE, FALSE, "", "approve reverted"), 1, 0)
    ELSE IF world.chain = "swap_reverts"
    THEN SwapRun(SwapResult(FALSE, FALSE, "", "swap reverted"),
                 IF isFromETH THEN 0 ELSE 1, 1)
    ELSE SwapRun(SwapResult(TRUE, FALSE, "0xhash", ""),
                 IF isFromETH THEN 0 ELSE 1, 1)

Route(from, to) == [from |-> from, to |-> to]

\* executeSwapTool.execute: the routes array handed to the router
swapRoutes(context) ==
    IF context.via # "NULL"
    THEN << Route(context.tokenIn, context.via), Route(context.via, context.tokenOut) >>
    ELSE << Route(context.tokenIn, context.tokenOut) >>

QuoteResult(success, amountOut, error) ==
    [success |-> success, amountOut |-> amountOut, error |-> error]

NoQuoteResult == QuoteResult(FALSE, 0, "")

\* what the chain answers to one quote
QuoteWorlds == { "ok", "reverts" }

\* getQuoteTool.execute, by its return sites (amounts as whole numbers)
getQuote(context, world) ==
    IF ~resolveToken(context.tokenIn) \/ ~resolveToken(context.tokenOut)
    THEN QuoteResult(FALSE, 0, "Unknown token")
    ELSE IF context.via # "NULL" /\ ~resolveToken(context.via)
    THEN QuoteResult(FALSE, 0, "Unknown intermediate token")
    ELSE IF world = "reverts"
    THEN QuoteResult(FALSE, 0, "getAmountsOut reverted")
    ELSE QuoteResult(TRUE, 100, "")

-----------------------------------------------------------------------------
(* executeTradeFromDecision *)

Parsed(kind, why, object, context) ==
    [kind |-> kind, why |-> why, object |-> object, context |-> context]

NoContext == SwapContext("", "", 0, 0, "NULL")
NoParse == Parsed("null", "", EmptyText, NoContext)

\* executeTradeFromDecision up to its first await: kind "null" is an early
\* `return null` (why "exception": through the catch), kind "trade" goes on
\* to the quote for `context`.
ParseDecision(content) ==
    IF content = EmptyText THEN Parsed("null", "empty", EmptyText, NoContext)
    ELSE IF content.body = "none" THEN Parsed("null", "no json", EmptyText, NoContext)
    ELSE IF content.body = "bad" THEN Parsed("null", "exception", EmptyText, NoContext)
    ELSE IF ~content.hasTd \/ content.td = << >>
    THEN Parsed("null", "no trade decision", EmptyText, NoContext)
    ELSE LET tradeDecision == content.td[1]
             action == ToUpperCase(tradeDecision.action)
             amountUsd == tradeDecision.amount_usd
             token == ToUpperCase(tradeDecision.token)
             via == ToUpperCase(tradeDecision.via)
             tokenIn == IF action = "BUY" THEN "USDC" ELSE token
             tokenOut == IF action = "BUY" THEN token ELSE "USDC"
         IN  IF action \notin { "BUY", "SELL" }
             THEN Parsed("null", "no trade", EmptyText, NoContext)
             ELSE IF amountUsd = 0 \/ amountUsd < ONE_USD
             THEN Parsed("null", "amount too small", EmptyText, NoContext)
             ELSE IF token = "NULL"
             THEN Parsed("null", "no token", EmptyText, NoContext)
             ELSE IF via = "NONSTRING"
             THEN Parsed("null", "exception", EmptyText, NoContext)
             ELSE Parsed("trade", "", Stringify(content),
                         SwapContext(tokenIn, tokenOut, amountUsd, 0, via))

\* decision.trade_decisions[0].rationale = `${rationale} [...]`; JSON.stringify
Annotate(object, note) ==
    [object EXCEPT !.td[1].rationale = Append(@, note)]

\* (expectedOut * (1 - slippagePercent / 100)), slippagePercent = 1.0
MinAmountOut(expectedOut) == (expectedOut * 99) \div 100

\* the annotation for a swap result
SwapNote(result) ==
    IF result.success /\ result.txHash # "" THEN Note("EXECUTED", << "TX ", result.txHash >>)
    ELSE IF result.dryRun THEN Note("DRY RUN", << "Trade simulated only" >>)
    ELSE Note("EXECUTION FAILED", << result.error >>)

ReturnTextNoFallThrough(executedContent, content) ==
    IF executedContent # EmptyText THEN executedContent ELSE HoldEmpty

\* callQwenForDecision: executedContent || qwenContent || JSON.stringify({HOLD})
ReturnText(executedContent, content) ==
    IF executedContent # EmptyText THEN executedContent
    ELSE IF content # EmptyText THEN content
    ELSE HoldEmpty

-----------------------------------------------------------------------------
(* The signature verifier *)

\* a message content or a choice content: null, or a text
Content(null, text) == [null |-> null, text |-> text]

RECURSIVE Concat(_)
\* Array.prototype.join('') of texts
Concat(parts) ==
    IF parts = << >> THEN << >> ELSE Head(parts) \o Concat(Tail(parts))

\* messages.map((m) => m.content || '').join('')
reconstructFullPrompt(msgs) ==
    Concat([i \in DOMAIN msgs |-> IF msgs[i].null THEN << >> ELSE msgs[i].text])

\* choices.map((c) => c.message.content || '').join('')
reconstructFullOutput(choices) ==
    Concat([i \in DOMAIN choices |-> IF choices[i].null THEN << >> ELSE choices[i].text])

\* messages.map((m) => m.content ?? '').join(''), on wire messages
buildRequestPrompt(msgs) == Concat([i \in DOMAIN msgs |-> msgs[i].content])

VerifyRequest(hasMessages, msgs) == [hasMessages |-> hasMessages, messages |-> msgs]

\* form: "sig" (65 bytes of hex made by signing msg with key), "malformed"
\* (any other string) or "missing" (no string); prefixed: it starts with 0x
Signature(form, key, msg, prefixed) ==
    [form |-> form, key |-> key, msg |-> msg, prefixed |-> prefixed]

VerifyResponse(model, choices, signature) ==
    [model |-> model, choices |-> choices, signature |-> signature]

\* an address as a string: whose it is, and the case of its hex letters
Address(id, case) == [id |-> id, case |-> case]

VerifyData(request, response, chainId, expectedSigner) ==
    [request |-> request, response |-> response, chainId |-> chainId,
     expectedSigner |-> expectedSigner]

reconstructSignedMessageSpaced(request, response, chainId) ==
    chainId \o << " " >> \o response.model
            \o << " " >> \o reconstructFullPrompt(request.messages)
            \o << " " >> \o reconstructFullOutput(response.choices)

\* `${chainId}${modelId}${fullPrompt}${fullOutput}`
reconstructSignedMessage(request, response, chainId) ==
    chainId \o response.model \o reconstructFullPrompt(request.messages)
            \o reconstructFullOutput(response.choices)

\* response.signature.startsWith('0x') ? response.signature : `0x${...}`
NormalizeSignature(signature) == [signature EXCEPT !.prefixed = TRUE]

\* ethers.verifyMessage: throws on anything but 0x-prefixed signature bytes;
\* recovers the signer's address when the message is the signed one, and
\* some unrelated address otherwise
verifyMessage(message, signature) ==
    IF signature.form # "sig" \/ ~signature.prefixed
    THEN [threw |-> TRUE, address |-> Address("", "")]
    ELSE IF signature.msg = message
    THEN [threw |-> FALSE, address |-> Address(signature.key, "checksum")]
    ELSE [threw |-> FALSE, address |-> Address("unrelated", "checksum")]

\* String.prototype.toLowerCase of an address
AddressToLowerCase(a) == [a EXCEPT !.case = "lower"]

SameAddressExact(a, b) == a = b

\* recoveredAddress.toLowerCase() === expectedSigner.toLowerCase()
SameAddress(a, b) == AddressToLowerCase(a) = AddressToLowerCase(b)

VerifyResult(isValid, recoveredAddress, expectedSigner, reconstructedMessage, error, raised) ==
    [isValid |-> isValid, recoveredAddress |-> recoveredAddress,
     expectedSigner |-> expectedSigner, reconstructedMessage |-> reconstructedMessage,
     error |-> error, raised |-> raised]

ERROR == Address("ERROR", "upper")

\* the try block of verifySignature; raised: an exception left the block
TryVerify(data) ==
    LET thrown(error) ==
            VerifyResult(FALSE, ERROR, data.expectedSigner, << >>, error, TRUE)
    IN  IF ~data.request.hasMessages
        THEN thrown("Cannot read properties of undefined (reading 'map')")
        ELSE LET reconstructedMessage ==
                     reconstructSignedMessage(data.request, data.response, data.chainId)
             IN  IF data.response.signature.form = "missing"
                 THEN thrown("Cannot read properties of undefined (reading 'startsWith')")
                 ELSE LET signature == NormalizeSignature(data.response.signature)
                          recovered == verifyMessage(reconstructedMessage, signature)
                      IN  IF recovered.threw THEN thrown("invalid signature")
                          ELSE VerifyResult(
                                   SameAddress(recovered.address, data.expectedSigner),
                                   recovered.address, data.expectedSigner,
                                   reconstructedMessage, "", FALSE)

verifySignatureUncaught(data) == TryVerify(data)

\* verifySignature: the try block, and the catch that turns an exception
\* into a result
verifySignature(data) ==
    LET tried == TryVerify(data)
    IN  IF tried.raised
        THEN VerifyResult(FALSE, ERROR, data.expectedSigner, << >>, tried.error, FALSE)
        ELSE tried

NoVerification ==
    [called |-> FALSE,
     data |-> VerifyData(VerifyRequest(TRUE, << >>),
                         VerifyResponse(<< >>, << >>, Signature("missing", "", << >>, FALSE)),
                         << >>, Address("", "")),
     result |-> VerifyResult(FALSE, Address("", ""), Address("", ""), << >>, "", FALSE)]

-----------------------------------------------------------------------------
(* State *)

ZeroNet ==
    [grantFetches |-> 0, primaryRequests |-> 0, reasoningRequests |-> 0,
     sinkRecords |-> 0, quoteCalls |-> 0, swapCalls |-> 0,
     approvalTx |-> 0, swapTx |-> 0, swapRoute |-> << >>,
     quoteContext |-> NoContext, swapContext |-> NoContext]

NoStream ==
    [buffer |-> << >>, fullContent |-> << >>, finalSignature |-> "",
     finalUsage |-> 0, responseModel |-> PRIMARY_MODEL, responseId |-> "",
     streamStarted |-> FALSE, events |-> << >>, reads |-> 0,
     received |-> << >>, closed |-> FALSE, aborted |-> FALSE]

\* nothing in progress
\* the invocations that may overlap on one instance
CallIds == { 1, 2 }

\* the locals of one invocation of doGenerate or doStream, with the request
\* body it sent (wire), the bytes its reader delivered (received) and the
\* record it handed to onVerification
NoCall ==
    [kind |-> "none", pc |-> "idle", prompt |-> << >>, messages |-> << >>,
     wire |-> << >>, received |-> << >>, stream |-> NoStream,
     record |-> [built |-> FALSE, requestPrompt |-> << >>,
                 responseOutput |-> << >>, signature |-> ""]]

\* the trading loop before startTradingLoop
NoLoop == [phase |-> "off", iterationNumber |-> 0, runs |-> << >>]

Idle ==
    /\ pc = "idle"
    /\ op = "none"
    /\ callPrompt = << >>
    /\ messages = << >>
    /\ qwenContent = EmptyText
    /\ hasSignature = FALSE
    /\ decision = NoParse
    /\ quoteResult = NoQuoteResult
    /\ swapResult = NoSwapResult
    /\ outcome = "none"
    /\ resultText = EmptyText
    /\ net = ZeroNet
    /\ stream = NoStream
    /\ verification = NoVerification
    /\ invocations = [c \in CallIds |-> NoCall]
    /\ loop = NoLoop

\* The provider as createEigenAIModel returns it, in a process whose
\* configuration module has been loaded.
Init ==
    /\ envDRY_RUN \in { "true", "false" }
    /\ envTEST_MODE = "false"
    /\ envNODE_ENV = "development"
    /\ ENV_CONFIG = LoadEnvConfig(envDRY_RUN, envTEST_MODE, envNODE_ENV)
    /\ useApiKeyAuth \in BOOLEAN
    /\ hasOnVerification \in BOOLEAN
    /\ Idle

\* The same, for every setting of the three environment variables, with an
\* API key and no verification callback.
InitTool ==
    /\ envDRY_RUN \in { "true", "false" }
    /\ envTEST_MODE \in { "true", "false" }
    /\ envNODE_ENV \in { "test", "development" }
    /\ ENV_CONFIG = LoadEnvConfig(envDRY_RUN, envTEST_MODE, envNODE_ENV)
    /\ useApiKeyAuth = TRUE
    /\ hasOnVerification = FALSE
    /\ Idle

envVars == << envDRY_RUN, envTEST_MODE, envNODE_ENV, ENV_CONFIG >>
optionVars == << useApiKeyAuth, hasOnVerification >>
tradeVars == << decision, quoteResult, swapResult >>

-----------------------------------------------------------------------------
(* doGenerate and the fallback engine *)

\* the operation ends by returning `text`
Return(text) ==
    /\ pc' = "done"
    /\ outcome' = "returned"
    /\ resultText' = text

\* the operation ends by throwing to its caller
Raise ==
    /\ pc' = "done"
    /\ outcome' = "raised"
    /\ resultText' = EmptyText

\* doGenerate, from its entry to its first await
DoGenerate(prompt) ==
    /\ pc = "idle"
    /\ op' = "doGenerate"
    /\ callPrompt' = prompt
    /\ messages' = convertPromptToMessages(prompt)
    /\ net' = ZeroNet
    /\ IF LimitReached(ToolResultCount(messages'))
       THEN IF ExecuteSwapCalled(messages')
            THEN Return(ExecutedDecision)
            ELSE pc' = "qwen_auth" /\ UNCHANGED << outcome, resultText >>
       ELSE pc' = "gen_auth" /\ UNCHANGED << outcome, resultText >>
    /\ UNCHANGED << envVars, optionVars, verification, invocations, loop, tradeVars, qwenContent, hasSignature, stream >>

GrantWorlds == { "ok", "not_ok", "network_error" }

AfterAuth(at) ==
    CASE at = "qwen_auth" -> "qwen_fetch"
      [] at = "gen_auth" -> "gen_fetch"
      [] at = "stream_auth" -> "stream_fetch"

\* auth fields taken from an earlier call instead of a new challenge
BuildAuthFieldsCached(world) ==
    /\ pc \in { "qwen_auth", "gen_auth", "stream_auth" }
    /\ world = "ok"
    /\ pc' = AfterAuth(pc)
    /\ UNCHANGED << envVars, optionVars, verification, invocations, loop, tradeVars, op, callPrompt, messages,
                    qwenContent, hasSignature, stream, net, outcome, resultText >>

\* buildAuthFields (getGrantMessage, signMessage), awaited by doGenerate,
\* doStream and callQwenForDecision outside any try block
BuildAuthFields(world) ==
    /\ pc \in { "qwen_auth", "gen_auth", "stream_auth" }
    /\ IF useApiKeyAuth
       THEN /\ world = "ok"
            /\ pc' = AfterAuth(pc)
            /\ UNCHANGED << net, outcome, resultText >>
       ELSE /\ net' = [net EXCEPT !.grantFetches = @ + 1]
            /\ IF world = "ok"
               THEN pc' = AfterAuth(pc) /\ UNCHANGED << outcome, resultText >>
               ELSE Raise
    /\ UNCHANGED << envVars, optionVars, verification, invocations, loop, tradeVars, op, callPrompt, messages, qwenContent,
                    hasSignature, stream >>

Response(kind, content, signature) ==
    [kind |-> kind, content |-> content, signature |-> signature]

\* what the service may answer to the reasoning-model request
QwenResponses ==
    { Response(k, EmptyText, FALSE) : k \in { "network_error", "not_ok", "bad_body" } }
    \cup { Response("ok", c, g) : c \in ModelTexts, g \in BOOLEAN }

\* callQwenForDecision: the POST to the reasoning model and what follows it
\* up to the next await
CallQwen(response) ==
    /\ pc = "qwen_fetch"
    /\ net' = [net EXCEPT !.reasoningRequests = @ + 1]
    /\ IF response.kind = "not_ok" THEN
            Return(HoldUnavailable) /\ UNCHANGED << qwenContent, hasSignature >>
       ELSE IF response.kind \in { "network_error", "bad_body" } THEN
            Return(HoldError) /\ UNCHANGED << qwenContent, hasSignature >>
       ELSE /\ qwenContent' = response.content
            /\ hasSignature' = response.signature
            /\ pc' = IF response.signature /\ hasOnVerification
                     THEN "qwen_verify" ELSE "fb_trade"
            /\ UNCHANGED << outcome, resultText >>
    /\ UNCHANGED << envVars, optionVars, verification, invocations, loop, tradeVars, op, callPrompt, messages, stream >>

\* what the onVerification callback does: returns (or resolves), returns a
\* promise that rejects, or throws before returning
SinkWorlds == { "ok", "rejects", "throws" }

\* callQwenForDecision: try { await onVerification(data) } catch { log }
QwenVerification(world) ==
    /\ pc = "qwen_verify"
    /\ net' = [net EXCEPT !.sinkRecords = @ + 1]
    /\ pc' = "fb_trade"
    /\ UNCHANGED << envVars, optionVars, verification, invocations, loop, tradeVars, op, callPrompt, messages, qwenContent,
                    hasSignature, outcome, resultText, stream >>

\* A JSON.parse failure that escapes executeTradeFromDecision reaches the
\* catch of callQwenForDecision, which answers with the HOLD default.
ExecuteTradeStartUncaught ==
    /\ pc = "fb_trade"
    /\ LET parsed == ParseDecision(qwenContent)
       IN  IF parsed.kind = "null"
           THEN /\ Return(IF parsed.why = "exception" THEN HoldError
                          ELSE ReturnText(EmptyText, qwenContent))
                /\ UNCHANGED decision
           ELSE /\ decision' = parsed
                /\ pc' = "fb_quote"
                /\ UNCHANGED << outcome, resultText >>
    /\ UNCHANGED << envVars, optionVars, verification, invocations, loop, quoteResult, swapResult, op, callPrompt, messages,
                    qwenContent, hasSignature, net, stream >>

\* executeTradeFromDecision, from its entry to the quote
ExecuteTradeStart ==
    /\ pc = "fb_trade"
    /\ LET parsed == ParseDecision(qwenContent)
       IN  IF parsed.kind = "null"
           THEN Return(ReturnText(EmptyText, qwenContent)) /\ UNCHANGED decision
           ELSE /\ decision' = parsed
                /\ pc' = "fb_quote"
                /\ UNCHANGED << outcome, resultText >>
    /\ UNCHANGED << envVars, optionVars, verification, invocations, loop, quoteResult, swapResult, op, callPrompt, messages,
                    qwenContent, hasSignature, net, stream >>

\* A quote step that goes on to the swap whatever the quote says.
FbQuoteUnchecked(world) ==
    /\ pc = "fb_quote"
    /\ net' = [net EXCEPT !.quoteCalls = @ + 1, !.quoteContext = decision.context]
    /\ quoteResult' = getQuote(decision.context, world)
    /\ pc' = "fb_swap"
    /\ UNCHANGED << envVars, optionVars, verification, invocations, loop, decision, swapResult, op,
                    callPrompt, messages, qwenContent, hasSignature, stream, outcome,
                    resultText >>

\* executeTradeFromDecision: await getQuoteTool.execute and the check of it
FbQuote(world) ==
    /\ pc = "fb_quote"
    /\ net' = [net EXCEPT !.quoteCalls = @ + 1, !.quoteContext = decision.context]
    /\ quoteResult' = getQuote(decision.context, world)
    /\ IF ~quoteResult'.success \/ quoteResult'.amountOut = 0
       THEN Return(ReturnText(
                Annotate(decision.object,
                         Note("EXECUTION FAILED",
                              << "Quote error - ", quoteResult'.error >>)),
                qwenContent))
       ELSE pc' = "fb_swap" /\ UNCHANGED << outcome, resultText >>
    /\ UNCHANGED << envVars, optionVars, verification, invocations, loop, decision, swapResult, op, callPrompt, messages,
                    qwenContent, hasSignature, stream >>

\* A swap step that tries again after a failed swap.
FbSwapRetrying(world) ==
    /\ pc = "fb_swap"
    /\ net.swapCalls < 3
    /\ LET context == [decision.context EXCEPT
                          !.minAmountOut = MinAmountOut(quoteResult.amountOut)]
           run == executeSwap(ENV_CONFIG, context, world)
       IN  /\ swapResult' = run.result
           /\ net' = [net EXCEPT !.swapCalls = @ + 1,
                                 !.approvalTx = @ + run.approvalTx,
                                 !.swapTx = @ + run.swapTx,
                                 !.swapContext = context,
                                 !.swapRoute = IF run.swapTx > 0
                                               THEN swapRoutes(context) ELSE @]
           /\ IF run.result.success \/ run.result.dryRun
              THEN Return(ReturnText(Annotate(decision.object, SwapNote(run.result)),
                                     qwenContent))
              ELSE UNCHANGED << pc, outcome, resultText >>
    /\ UNCHANGED << envVars, optionVars, verification, invocations, loop, decision, quoteResult, op, callPrompt, messages,
                    qwenContent, hasSignature, stream >>

\* executeTradeFromDecision: await executeSwapTool.execute, the annotation
\* of the decision and the return
FbSwap(world) ==
    /\ pc = "fb_swap"
    /\ LET context == [decision.context EXCEPT
                          !.minAmountOut = MinAmountOut(quoteResult.amountOut)]
           run == executeSwap(ENV_CONFIG, context, world)
       IN  /\ swapResult' = run.result
           /\ net' = [net EXCEPT !.swapCalls = @ + 1,
                                 !.approvalTx = @ + run.approvalTx,
                                 !.swapTx = @ + run.swapTx,
                                 !.swapContext = context,
                                 !.swapRoute = IF run.swapTx > 0
                                               THEN swapRoutes(context) ELSE @]
           /\ Return(ReturnText(Annotate(decision.object, SwapNote(run.result)),
                                qwenContent))
    /\ UNCHANGED << envVars, optionVars, verification, invocations, loop, decision, quoteResult, op, callPrompt, messages,
                    qwenContent, hasSignature, stream >>

PrimaryResponses == { "network_error", "not_ok", "ok_text", "ok_tool_calls" }

\* doGenerate below the limit: the POST to the primary model and the mapping
\* of its answer
CallPrimary(response) ==
    /\ pc = "gen_fetch"
    /\ net' = [net EXCEPT !.primaryRequests = @ + 1]
    /\ IF response \in { "network_error", "not_ok" }
       THEN Raise
       ELSE Return(IF response = "ok_text" THEN Prose ELSE EmptyText)
    /\ UNCHANGED << envVars, optionVars, verification, invocations, loop, tradeVars, op, callPrompt, messages, qwenContent,
                    hasSignature, stream >>

\* the caller takes the result; the provider keeps nothing of the call
Reset ==
    /\ pc = "done"
    /\ pc' = "idle"
    /\ op' = "none"
    /\ callPrompt' = << >>
    /\ messages' = << >>
    /\ qwenContent' = EmptyText
    /\ hasSignature' = FALSE
    /\ decision' = NoParse
    /\ quoteResult' = NoQuoteResult
    /\ swapResult' = NoSwapResult
    /\ outcome' = "none"
    /\ resultText' = EmptyText
    /\ net' = ZeroNet
    /\ stream' = NoStream
    /\ UNCHANGED << envVars, optionVars, verification, invocations, loop >>

-----------------------------------------------------------------------------
(* doStream *)

\* One element of the byte stream: a newline ("nl"), the "data: " prefix
\* ("prefix"), the [DONE] sentinel ("done"), a complete JSON object ("json",
\* with its fields) or characters that are no JSON ("bad").
Tok(k, choices, content, signature, usage) ==
    [k |-> k, choices |-> choices, content |-> content,
     signature |-> signature, usage |-> usage]

NL == Tok("nl", FALSE, << >>, "", 0)
PFX == Tok("prefix", FALSE, << >>, "", 0)
DONE == Tok("done", FALSE, << >>, "", 0)
BAD == Tok("bad", FALSE, << >>, "", 0)
Json(choices, content, signature, usage) == Tok("json", choices, content, signature, usage)

\* the network chunks the transport may deliver
Chunks ==
    { << PFX, Json(TRUE, << "H" >>, "sig3", 0), NL >>,  \* a text delta, signed
      << PFX, Json(TRUE, << "H" >>, "sig3", 0) >>,      \* the same, newline not yet in
      << NL >>,                                         \* the newline alone
      << PFX >>,                                        \* a line cut after "data: "
      << Json(TRUE, << >>, "sig", 7), NL >>,            \* signature and usage
      << PFX, Json(FALSE, << >>, "sig2", 0), NL >>,     \* no choices array
      \* the sentinel, a line that is no JSON, and a text delta
      << PFX, DONE, NL, PFX, BAD, NL, PFX, Json(TRUE, << "i" >>, "", 0), NL >> }

Event(type, delta, signature, usage) ==
    [type |-> type, delta |-> delta, signature |-> signature, usage |-> usage]

RECURSIVE SplitLinesEager(_, _, _)
\* a split that also hands the unterminated rest to the parser
SplitLinesEager(buffer, line, lines) ==
    IF buffer = << >>
    THEN [lines |-> IF line = << >> THEN lines ELSE Append(lines, line), rest |-> line]
    ELSE IF Head(buffer).k = "nl"
    THEN SplitLinesEager(Tail(buffer), << >>, Append(lines, line))
    ELSE SplitLinesEager(Tail(buffer), Append(line, Head(buffer)), lines)

RECURSIVE SplitLines(_, _, _)
\* buffer.split('\n'): the complete lines, and the rest after the last newline
SplitLines(buffer, line, lines) ==
    IF buffer = << >> THEN [lines |-> lines, rest |-> line]
    ELSE IF Head(buffer).k = "nl"
    THEN SplitLines(Tail(buffer), << >>, Append(lines, line))
    ELSE SplitLines(Tail(buffer), Append(line, Head(buffer)), lines)

\* the body of `for (const line of lines)` in pull()
ProcessLine(st, line) ==
    IF line = << >> \/ Head(line).k # "prefix" THEN st
    ELSE LET data == Tail(line)
         IN  IF data = << DONE >> THEN st
             ELSE IF Len(data) # 1 \/ data[1].k # "json" THEN st   \* JSON.parse throws
             ELSE LET chunk == data[1]
                      named == [st EXCEPT !.responseId = "id"]
                  IN  IF ~chunk.choices THEN named   \* chunk.choices[0] throws
                      ELSE LET texted ==
                                  IF chunk.content # << >>
                                  THEN [named EXCEPT
                                          !.fullContent = @ \o chunk.content,
                                          !.events = Append(@,
                                              Event("text-delta", chunk.content, "", 0))]
                                  ELSE named
                               signed ==
                                  IF chunk.signature # ""
                                  THEN [texted EXCEPT !.finalSignature = chunk.signature]
                                  ELSE texted
                           IN  IF chunk.usage # 0
                               THEN [signed EXCEPT !.finalUsage = chunk.usage]
                               ELSE signed

RECURSIVE ProcessLinesOneTry(_, _)
\* a loop under one try: the first line that is no JSON ends the batch
ProcessLinesOneTry(st, lines) ==
    IF lines = << >> THEN st
    ELSE IF Head(lines) # << >> /\ Head(Head(lines)).k = "prefix"
            /\ Tail(Head(lines)) = << BAD >>
    THEN st
    ELSE ProcessLinesOneTry(ProcessLine(st, Head(lines)), Tail(lines))

RECURSIVE ProcessLines(_, _)
ProcessLines(st, lines) ==
    IF lines = << >> THEN st
    ELSE ProcessLines(ProcessLine(st, Head(lines)), Tail(lines))

\* pull(): stream-start and text-start, on the first pull only
Started(st) ==
    IF st.streamStarted THEN st
    ELSE [st EXCEPT !.streamStarted = TRUE,
                    !.events = @ \o << Event("stream-start", << >>, "", 0),
                                       Event("text-start", << >>, "", 0) >>]

\* doStream, from its entry to its first await: no check of the tool-result
\* count is made here
DoStream(prompt) ==
    /\ pc = "idle"
    /\ op' = "doStream"
    /\ callPrompt' = prompt
    /\ messages' = convertPromptToMessages(prompt)
    /\ net' = ZeroNet
    /\ pc' = "stream_auth"
    /\ UNCHANGED << envVars, optionVars, verification, invocations, loop, tradeVars, qwenContent, hasSignature,
                    outcome, resultText, stream >>

StreamResponses == { "network_error", "not_ok", "no_body", "ok" }

\* doStream: the POST to the primary model with stream: true; the stream it
\* returns is pulled at once, up to the first reader.read()
StreamFetch(response) ==
    /\ pc = "stream_fetch"
    /\ net' = [net EXCEPT !.primaryRequests = @ + 1]
    /\ IF response = "ok"
       THEN /\ pc' = "streaming"
            /\ stream' = Started(stream)
            /\ UNCHANGED << outcome, resultText >>
       ELSE Raise /\ UNCHANGED stream
    /\ UNCHANGED << envVars, optionVars, verification, invocations, loop, tradeVars, op, callPrompt, messages, qwenContent,
                    hasSignature >>

\* pull(): one reader.read() that delivers a chunk
StreamRead(value) ==
    /\ pc = "streaming"
    /\ stream.reads < MaxChunks
    /\ LET st == Started(stream)
           split == SplitLines(st.buffer \o value, << >>, << >>)
       IN  stream' = [ProcessLines(st, split.lines) EXCEPT
                        !.buffer = split.rest, !.reads = @ + 1,
                        !.received = @ \o value]
    /\ UNCHANGED << envVars, optionVars, verification, invocations, loop, tradeVars, op, callPrompt, messages, qwenContent,
                    hasSignature, outcome, resultText, net, pc >>

\* pull(): reader.read() reports done. The record is handed over by
\* Promise.resolve(onVerification(data)).catch(log): a rejection is logged, but
\* a callback that throws does so before Promise.resolve is entered, and the
\* exception leaves pull(), which errors the stream.
StreamDone(world) ==
    /\ pc = "streaming"
    /\ LET st == Started(stream)
           verified == st.finalSignature # "" /\ hasOnVerification
           ended == [st EXCEPT !.events = Append(@, Event("text-end", << >>, "", 0))]
       IN  /\ net' = [net EXCEPT !.sinkRecords = @ + (IF verified THEN 1 ELSE 0)]
           /\ IF verified /\ world = "throws"
              THEN /\ stream' = ended
                   /\ Raise
              ELSE /\ world \in (IF verified THEN { "ok", "rejects" } ELSE { "ok" })
                   /\ stream' = [ended EXCEPT
                         !.events = @ \o
                           << Event("response-metadata", << >>, "", 0),
                              Event("finish", << >>, st.finalSignature, st.finalUsage) >>,
                         !.closed = TRUE]
                   /\ Return(EmptyText)
    /\ UNCHANGED << envVars, optionVars, verification, invocations, loop, tradeVars, op, callPrompt, messages, qwenContent,
                    hasSignature >>

\* callOptions.abortSignal fires while pull() awaits reader.read(): the read
\* rejects and the rejection leaves pull(), which has no try around the read,
\* no finally and no cancel(): nothing more is enqueued, the buffer is dropped
\* with the closure, and neither controller.close() nor a release of the
\* reader is reached.
StreamAbort ==
    /\ pc = "streaming"
    /\ stream' = [stream EXCEPT !.aborted = TRUE]
    /\ Raise
    /\ UNCHANGED << envVars, optionVars, verification, invocations, loop, tradeVars, op, callPrompt, messages,
                    qwenContent, hasSignature, net >>

-----------------------------------------------------------------------------
(* Invocations that overlap on one instance. Each await of doGenerate and   *)
(* doStream is a point where the other invocation may run.                   *)

\* everything that belongs to the single invocation followed above
singleVars == << pc, op, callPrompt, messages, qwenContent, hasSignature, outcome,
                resultText, net, stream >>

ConcurrentPrompts == { MkPrompt(0, 0, 0), MkPrompt(1, 1, 0) }

ConcurrentChunks ==
    { << PFX, Json(TRUE, << "H" >>, "sig3", 0), NL >>,
      << PFX, Json(TRUE, << "i" >>, "", 0) >>,
      << NL >> }

\* an accumulator declared once in createEigenAIModel instead of in doStream
AccumulatorShared(cs, c) == cs[1].stream

\* the accumulator of invocation c: buffer, fullContent, finalSignature,
\* finalUsage, responseModel, responseId, streamStarted are `let` locals of
\* doStream, and the events go to the controller of its own ReadableStream
Accumulator(cs, c) == cs[c].stream

\* doGenerate or doStream is entered: convertPromptToMessages(prompt), then
\* the await of buildAuthFields
CallStart(c, kind, prompt) ==
    /\ invocations[c].pc = "idle"
    /\ invocations' = [invocations EXCEPT ![c] =
                    [NoCall EXCEPT !.kind = kind, !.pc = "auth", !.prompt = prompt,
                                   !.messages = convertPromptToMessages(prompt)]]
    /\ UNCHANGED << envVars, optionVars, verification, loop, tradeVars, singleVars >>

\* buildAuthFields resolves; the request is about to be sent
CallAuth(c) ==
    /\ invocations[c].pc = "auth"
    /\ invocations' = [invocations EXCEPT ![c].pc = "fetch"]
    /\ UNCHANGED << envVars, optionVars, verification, loop, tradeVars, singleVars >>

\* the POST with `messages` in its body; doGenerate maps the answer and
\* returns, doStream returns a stream that is pulled up to its first read
CallFetch(c) ==
    /\ invocations[c].pc = "fetch"
    /\ invocations' = [invocations EXCEPT
                    ![c].wire = invocations[c].messages,
                    ![c].pc = IF invocations[c].kind = "doStream" THEN "streaming" ELSE "done",
                    ![c].stream = IF invocations[c].kind = "doStream"
                                  THEN Started(Accumulator(invocations, c)) ELSE @]
    /\ UNCHANGED << envVars, optionVars, verification, loop, tradeVars, singleVars >>

\* pull() of invocation c: one reader.read() that delivers a chunk
CallRead(c, value) ==
    /\ invocations[c].pc = "streaming"
    /\ invocations[c].stream.reads < MaxConcurrentReads
    /\ LET st == Started(Accumulator(invocations, c))
           split == SplitLines(st.buffer \o value, << >>, << >>)
       IN  invocations' = [invocations EXCEPT
                       ![c].stream = [ProcessLines(st, split.lines) EXCEPT
                                        !.buffer = split.rest,
                                        !.reads = invocations[c].stream.reads + 1,
                                        !.received = @ \o value],
                       ![c].received = @ \o value]
    /\ UNCHANGED << envVars, optionVars, verification, loop, tradeVars, singleVars >>

\* pull() of invocation c: reader.read() reports done, with a callback that
\* returns
CallDone(c) ==
    /\ invocations[c].pc = "streaming"
    /\ LET st == Started(Accumulator(invocations, c))
       IN  invocations' = [invocations EXCEPT
                       ![c].pc = "done",
                       ![c].record =
                           IF st.finalSignature # "" /\ hasOnVerification
                           THEN [built |-> TRUE,
                                 requestPrompt |-> buildRequestPrompt(invocations[c].messages),
                                 responseOutput |-> st.fullContent,
                                 signature |-> st.finalSignature]
                           ELSE @,
                       ![c].stream =
                           [st EXCEPT
                              !.events = @ \o
                                << Event("text-end", << >>, "", 0),
                                   Event("response-metadata", << >>, "", 0),
                                   Event("finish", << >>, st.finalSignature, st.finalUsage) >>,
                              !.closed = TRUE]]
    /\ UNCHANGED << envVars, optionVars, verification, loop, tradeVars, singleVars >>

\* the caller has taken the result of invocation c
CallReturn(c) ==
    /\ invocations[c].pc = "done"
    /\ invocations' = [invocations EXCEPT ![c] = NoCall]
    /\ UNCHANGED << envVars, optionVars, verification, loop, tradeVars, singleVars >>

InitConcurrent ==
    /\ envDRY_RUN = "true"
    /\ envTEST_MODE = "false"
    /\ envNODE_ENV = "development"
    /\ ENV_CONFIG = LoadEnvConfig(envDRY_RUN, envTEST_MODE, envNODE_ENV)
    /\ useApiKeyAuth = TRUE
    /\ hasOnVerification = TRUE
    /\ Idle

NextConcurrent ==
    \E c \in CallIds :
        \/ \E kind \in { "doGenerate", "doStream" }, prompt \in ConcurrentPrompts :
              CallStart(c, kind, prompt)
        \/ CallAuth(c)
        \/ CallFetch(c)
        \/ \E value \in ConcurrentChunks : CallRead(c, value)
        \/ CallDone(c)
        \/ CallReturn(c)

SpecConcurrent == InitConcurrent /\ [][NextConcurrent]_vars

-----------------------------------------------------------------------------
(* The trading loop: startTradingLoop and the runs of runIteration. Each     *)
(* await of a run is a point where the timer may fire.                        *)

\* everything but the loop
providerVars == << envVars, optionVars, verification, invocations, tradeVars, singleVars >>

\* one run of runIteration: where it stands, on which pair, and the value of
\* the shared iterationNumber it was started with
Run(at, pair, number) == [pc |-> at, pair |-> pair, number |-> number]

\* the next await of a run: takePortfolioSnapshot, getRecentEntries, then for
\* each pair getRecentEntriesForPair, aerodromeAgent.generate, logDecision and
\* the two-second delay
NextStep(run) ==
    CASE run.pc = "snapshot" -> [run EXCEPT !.pc = "history"]
      [] run.pc = "history" -> [run EXCEPT !.pc = "pairHistory", !.pair = 1]
      [] run.pc = "pairHistory" -> [run EXCEPT !.pc = "agent"]
      [] run.pc = "agent" -> [run EXCEPT !.pc = "diary"]
      [] run.pc = "diary" -> [run EXCEPT !.pc = "delay"]
      [] run.pc = "delay" ->
            IF run.pair < MaxPairs
            THEN [run EXCEPT !.pc = "pairHistory", !.pair = @ + 1]
            ELSE [run EXCEPT !.pc = "done"]

\* runIteration is entered: iterationNumber++ and the first await
EnterRun(l) ==
    [l EXCEPT !.iterationNumber = @ + 1,
              !.runs = Append(@, Run("snapshot", 0, l.iterationNumber + 1))]

\* startTradingLoop: await runIteration(), the first run
StartTradingLoop ==
    /\ loop.phase = "off"
    /\ loop' = [EnterRun(loop) EXCEPT !.phase = "first"]
    /\ UNCHANGED providerVars

\* a run resumes after the await it stands at
IterationStep(i) ==
    /\ i \in DOMAIN loop.runs
    /\ loop.runs[i].pc # "done"
    /\ loop' = [loop EXCEPT !.runs[i] = NextStep(@)]
    /\ UNCHANGED providerVars

\* startTradingLoop after the first run: setInterval(runIteration, interval)
InstallTimer ==
    /\ loop.phase = "first"
    /\ loop.runs[1].pc = "done"
    /\ loop' = [loop EXCEPT !.phase = "scheduled"]
    /\ UNCHANGED providerVars

\* the interval elapses: the timer calls runIteration, whatever the state of
\* the runs before it
TimerFire ==
    /\ loop.phase = "scheduled"
    /\ Len(loop.runs) < MaxIterations
    /\ loop' = EnterRun(loop)
    /\ UNCHANGED providerVars

NextLoop ==
    \/ StartTradingLoop
    \/ \E i \in 1..MaxIterations : IterationStep(i)
    \/ InstallTimer
    \/ TimerFire

\* the loop of a process whose provider is idle
SpecLoop == InitConcurrent /\ [][NextLoop]_vars

-----------------------------------------------------------------------------
(* The executeSwap tool called by the agent, and the command line *)

ToolContexts ==
    { SwapContext(i, o, 100, 90, v) :
        i \in { "USDC", "WETH", "UNKNOWNTOKEN" },
        o \in { "AERO", "FAKETOKEN" },
        v \in { "NULL", "WETH", "INVALIDVIA" } }

\* the agent framework runs the executeSwap tool
ToolExecuteSwap(context, world) ==
    /\ pc = "idle"
    /\ op' = "executeSwap"
    /\ LET run == executeSwap(ENV_CONFIG, context, world)
       IN  /\ swapResult' = run.result
           /\ net' = [ZeroNet EXCEPT !.swapCalls = 1,
                                     !.approvalTx = run.approvalTx,
                                     !.swapTx = run.swapTx,
                                     !.swapContext = context,
                                     !.swapRoute = IF run.swapTx > 0
                                                   THEN swapRoutes(context) ELSE @]
    /\ Return(EmptyText)
    /\ UNCHANGED << envVars, optionVars, verification, invocations, loop, decision, quoteResult, callPrompt, messages,
                    qwenContent, hasSignature, stream >>

\* cli: `analyze` and `start --dry-run` assign process.env.DRY_RUN = 'true'
\* in the command's action, after the imports (and ENV_CONFIG) were evaluated
CliForceDryRun ==
    /\ pc = "idle"
    /\ envDRY_RUN # "true"
    /\ envDRY_RUN' = "true"
    /\ UNCHANGED << envTEST_MODE, envNODE_ENV, ENV_CONFIG, optionVars, verification, invocations, loop, tradeVars,
                    pc, op, callPrompt, messages, qwenContent, hasSignature, outcome,
                    resultText, net, stream >>

-----------------------------------------------------------------------------
(* Specifications *)

\* conversations given to doStream
StreamPrompts ==
    { MkPrompt(0, 0, 0), MkPrompt(MAX_TOOL_RESULTS, MAX_TOOL_RESULTS, 0) }

Next ==
    \/ \E prompt \in Prompts : DoGenerate(prompt)
    \/ \E world \in GrantWorlds : BuildAuthFields(world)
    \/ \E response \in QwenResponses : CallQwen(response)
    \/ \E world \in SinkWorlds : QwenVerification(world)
    \/ ExecuteTradeStart
    \/ \E world \in QuoteWorlds : FbQuote(world)
    \/ \E world \in SwapWorlds : FbSwap(world)
    \/ \E response \in PrimaryResponses : CallPrimary(response)
    \/ \E prompt \in StreamPrompts : DoStream(prompt)
    \/ \E response \in StreamResponses : StreamFetch(response)
    \/ \E value \in Chunks : StreamRead(value)
    \/ \E world \in SinkWorlds : StreamDone(world)
    \/ StreamAbort
    \/ Reset

Spec == Init /\ [][Next]_vars

\* replies that lead to a trade
TradingResponses ==
    { Response("ok", Text(FALSE, "obj", "model", TRUE, << e >>), FALSE) :
        e \in { BuyEntry, Entry("aero", "sell", ONE_USD, "weth", Why) } }

NextTool ==
    \/ CliForceDryRun
    \/ \E context \in ToolContexts, world \in SwapWorlds : ToolExecuteSwap(context, world)
    \/ DoGenerate(MkPrompt(MAX_TOOL_RESULTS, MAX_TOOL_RESULTS, 0))
    \/ BuildAuthFields("ok")
    \/ \E response \in TradingResponses : CallQwen(response)
    \/ ExecuteTradeStart
    \/ \E world \in QuoteWorlds : FbQuote(world)
    \/ \E world \in SwapWorlds : FbSwap(world)
    \/ Reset

SpecTool == InitTool /\ [][NextTool]_vars

-----------------------------------------------------------------------------
(* Properties *)

\* the wire conversation holds at least the budget of tool results
AtBudget == ToolResultCount(messages) >= MAX_TOOL_RESULTS

\* some message of the wire conversation carries a call of executeSwap
SwapCallInConversation ==
    \E i \in DOMAIN messages :
        \E j \in DOMAIN messages[i].tool_calls :
            messages[i].tool_calls[j].name = "executeSwap"

\* a finished synchronous completion
Completed == pc = "done" /\ op = "doGenerate"

\* the reasoning model answered with a text that holds no decision to parse:
\* prose, malformed JSON, or an object without a trade_decisions array
NoDecisionReply ==
    /\ qwenContent # EmptyText
    /\ \/ qwenContent.body \in { "none", "bad" }
       \/ qwenContent.body = "obj" /\ ~qwenContent.hasTd

\* the first trade decision of the reply is a BUY or SELL of at least $1
TradeReply ==
    /\ qwenContent.body = "obj"
    /\ qwenContent.hasTd
    /\ qwenContent.td # << >>
    /\ ToUpperCase(qwenContent.td[1].action) \in { "BUY", "SELL" }
    /\ qwenContent.td[1].amount_usd >= ONE_USD

\* the outcome annotations on the first trade decision of the returned text
Annotations(t) ==
    IF t.body = "obj" /\ t.hasTd /\ t.td # << >>
    THEN { i \in DOMAIN t.td[1].rationale :
             t.td[1].rationale[i].tag \in { "EXECUTED", "DRY RUN", "EXECUTION FAILED" } }
    ELSE { }

\* C1 (as the specification states it): once the tool-result count is at or
\* above the budget, a completion never raises to its caller, whichever step of
\* the fallback fails; it returns a decision text, and that text is the
\* HOLD-all default when the reasoning model's answer could not be obtained.
C1_FallbackNeverRaises ==
    (Completed /\ AtBudget) =>
        /\ outcome = "returned"
        /\ (~SwapCallInConversation /\ qwenContent = EmptyText)
               => resultText \in HoldDefaults

C3_ExecutedShortCircuit ==
    (op = "doGenerate" /\ AtBudget /\ SwapCallInConversation) =>
        /\ pc = "done"
        /\ outcome = "returned"
        /\ resultText = ExecutedDecision
        /\ net = ZeroNet

\* C3 witness: more results than the budget, executeSwap among the calls
C3_Witness ==
    /\ Completed
    /\ ToolResultCount(messages) > MAX_TOOL_RESULTS
    /\ SwapCallInConversation
    /\ resultText = ExecutedDecision

\* C4 (as the specification states it): no completion, synchronous or
\* streaming, whose wire conversation holds at least the budget of tool
\* results ever sends a request to the primary model.
C4_NoPrimaryRequestAtBudget ==
    (op \in { "doGenerate", "doStream" } /\ AtBudget) => net.primaryRequests = 0

\* C5: within one fallback decision the swap is invoked at most once, whatever
\* the quote or the swap answered and however many entries trade_decisions has.
C5_SwapAtMostOnce ==
    op = "doGenerate" => net.swapCalls <= 1

\* C5 witness: a reply with two BUY entries, one swap, which failed
C5_Witness ==
    /\ Completed
    /\ Len(qwenContent.td) >= 2
    /\ net.swapCalls = 1
    /\ ~swapResult.success
    /\ ~swapResult.dryRun

\* C6 (as the specification states it): a decision whose action is BUY or
\* SELL with amount_usd >= 1 is quoted, and the text returned carries exactly
\* one outcome annotation on its rationale; no failure leaves it unannotated.
C6_TradeAlwaysAnnotated ==
    (Completed /\ AtBudget /\ TradeReply) =>
        /\ outcome = "returned"
        /\ net.quoteCalls = 1
        /\ Cardinality(Annotations(resultText)) = 1

\* C7 (as stated): while DRY_RUN or TEST_MODE is set, or the environment is a
\* test environment, executeSwap sends no approval and no swap transaction and
\* answers with the dry-run result, as a tool or from the fallback engine.
C7_DryRunSendsNothing ==
    (net.swapCalls > 0 /\ (envDRY_RUN = "true" \/ envTEST_MODE = "true"
                                            \/ envNODE_ENV = "test")) =>
        /\ net.approvalTx = 0
        /\ net.swapTx = 0
        /\ swapResult.dryRun
        /\ ~swapResult.success

\* C8: when the reasoning model's reply is prose, malformed JSON or JSON
\* without trade_decisions, neither quote nor swap is invoked, and the caller
\* receives the reply exactly as the model produced it, without exception.
C8_NoDecisionReturnedVerbatim ==
    (op = "doGenerate" /\ NoDecisionReply) =>
        /\ net.quoteCalls = 0
        /\ net.swapCalls = 0
        /\ pc = "done" => (outcome = "returned" /\ resultText = qwenContent)

\* C8 witness: a prose reply was returned
C8_Witness ==
    /\ Completed
    /\ qwenContent = Prose
    /\ resultText = Prose

\* C9 (as the specification states it): a malformed decision JSON is turned
\* into the HOLD-all default decision, never an exception.
C9_MalformedJsonBecomesHold ==
    (Completed /\ qwenContent.body = "bad") =>
        (outcome = "returned" /\ resultText \in HoldDefaults)

\* C9 (amended): a malformed decision JSON never raises and is handed to the
\* caller as it came, which is no JSON-decodable object; the HOLD-all default
\* is returned exactly when no text was obtained from the reasoning model.
C9_HoldOnlyWithoutReply ==
    (Completed /\ AtBudget /\ ~SwapCallInConversation /\ net.reasoningRequests = 1) =>
        /\ outcome = "returned"
        /\ resultText \in HoldDefaults <=> qwenContent = EmptyText
        /\ qwenContent.body = "bad" =>
              (resultText = qwenContent /\ ~JsonDecodable(resultText))

\* C9 witness: a malformed JSON reply was returned
C9_Witness ==
    /\ Completed
    /\ qwenContent.body = "bad"
    /\ ~qwenContent.wrapped
    /\ resultText = qwenContent

\* C10 (as the specification states it): no call of the primary model,
\* synchronous or streaming, hands a record to the verification sink.
C10_PrimaryNeverVerified ==
    net.primaryRequests > 0 => net.sinkRecords = 0

\* some chunk received from the transport carried a signature
SignatureCarried ==
    \E i \in DOMAIN stream.received :
        stream.received[i].k = "json" /\ stream.received[i].signature # ""

\* a streaming call whose transport reported end-of-stream
StreamEnded ==
    pc = "done" /\ op = "doStream" /\ stream.streamStarted /\ ~stream.aborted

\* C11 (as the specification states it): the sink gets at most one delivery
\* attempt per signed response; a streaming call with a sink builds exactly one
\* record at end-of-stream if some chunk carried a signature, none otherwise.
C11_OneRecordIffSignatureCarried ==
    /\ net.sinkRecords <= 1
    /\ (StreamEnded /\ hasOnVerification) =>
          net.sinkRecords = (IF SignatureCarried THEN 1 ELSE 0)

\* C12 (as the specification states it): a failure of the verification sink
\* is never propagated: the streaming call still emits response-metadata and
\* finish and closes, and the fallback still returns its decision.
C12_SinkFailureNeverPropagates ==
    (pc = "done" /\ net.sinkRecords > 0) =>
        /\ outcome = "returned"
        /\ op = "doStream" =>
              /\ stream.closed
              /\ Len(stream.events) >= 2
              /\ stream.events[Len(stream.events) - 1].type = "response-metadata"
              /\ stream.events[Len(stream.events)].type = "finish"

\* the position of the last newline of a byte stream, 0 if it has none
LastNewline(bytes) ==
    LET at == { i \in DOMAIN bytes : bytes[i].k = "nl" }
    IN  IF at = { } THEN 0 ELSE CHOOSE i \in at : \A j \in at : j <= i

\* position i holds the JSON of a newline-terminated line "data: <json>" whose
\* first choice carries text
IsDeltaLine(bytes, i) ==
    /\ bytes[i].k = "json" /\ bytes[i].choices /\ bytes[i].content # << >>
    /\ i > 1 /\ bytes[i - 1].k = "prefix"
    /\ (i = 2 \/ bytes[i - 2].k = "nl")
    /\ i < Len(bytes) /\ bytes[i + 1].k = "nl"

\* the text-delta events a byte stream stands for, whatever its chunking
ExpectedDeltas(bytes) ==
    LET at == SelectSeq([i \in 1..Len(bytes) |-> i], LAMBDA i : IsDeltaLine(bytes, i))
    IN  [j \in 1..Len(at) |-> Event("text-delta", bytes[at[j]].content, "", 0)]

\* the text-delta events emitted so far
EmittedDeltas == SelectSeq(stream.events, LAMBDA ev : ev.type = "text-delta")

\* C19 (as the specification states it): every streaming call that reaches
\* end-of-stream has emitted exactly stream-start, text-start, the text deltas
\* in arrival order, text-end, response-metadata and a finish event carrying
\* the final usage and signature, and has closed.
C19_ExactEventSequence ==
    StreamEnded =>
        /\ stream.closed
        /\ stream.events =
              << Event("stream-start", << >>, "", 0), Event("text-start", << >>, "", 0) >>
              \o ExpectedDeltas(stream.received)
              \o << Event("text-end", << >>, "", 0),
                    Event("response-metadata", << >>, "", 0),
                    Event("finish", << >>, stream.finalSignature, stream.finalUsage) >>

\* C20: a data line is parsed only once its newline has arrived and then
\* exactly once: at every point of a streaming call the text deltas emitted
\* are those of the newline-terminated lines of the bytes received, in order,
\* whatever the chunking, and the buffer holds the bytes after the last newline.
C20_ChunkingIndependent ==
    (op = "doStream" /\ pc \in { "streaming", "done" }) =>
        /\ EmittedDeltas = ExpectedDeltas(stream.received)
        /\ stream.buffer =
              SubSeq(stream.received, LastNewline(stream.received) + 1,
                     Len(stream.received))

\* a line cut before its newline, completed by the next chunk, parsed once
C20_Witness ==
    /\ op = "doStream" /\ pc = "streaming"
    /\ stream.reads = 2
    /\ stream.received = << PFX, Json(TRUE, << "H" >>, "sig3", 0), NL >>
    /\ stream.buffer = << >>
    /\ Len(EmittedDeltas) = 1

\* C25 (as the specification states it): a via equal to tokenIn or to
\* tokenOut is ignored and the swap goes by the direct route: no route handed
\* to the router passes through one of its own end points.
C25_ViaEndpointIgnored ==
    Len(net.swapRoute) = 2 =>
        net.swapRoute[1].to \notin { net.swapRoute[1].from, net.swapRoute[2].to }

\* the text of the text-delta events a byte stream stands for
ExpectedContent(bytes) ==
    LET deltas == ExpectedDeltas(bytes)
    IN  Concat([j \in 1..Len(deltas) |-> deltas[j].delta])

\* what invocation c shows when it runs alone on its prompt and its bytes:
\* its wire messages, its accumulator, its events and its record
AsAlone(c) ==
    LET call == invocations[c]
        acc == call.stream
        bytes == call.received
    IN  /\ call.messages = convertPromptToMessages(call.prompt)
        /\ call.wire = (IF call.pc \in { "streaming", "done" }
                         THEN convertPromptToMessages(call.prompt) ELSE << >>)
        /\ SelectSeq(acc.events, LAMBDA ev : ev.type = "text-delta") = ExpectedDeltas(bytes)
        /\ acc.fullContent = ExpectedContent(bytes)
        /\ acc.buffer = SubSeq(bytes, LastNewline(bytes) + 1, Len(bytes))
        /\ Len(SelectSeq(acc.events, LAMBDA ev : ev.type = "stream-start")) =
              (IF call.kind = "doStream" /\ call.pc \in { "streaming", "done" }
               THEN 1 ELSE 0)
        /\ call.record.built =>
              /\ call.record.requestPrompt =
                    buildRequestPrompt(convertPromptToMessages(call.prompt))
              /\ call.record.responseOutput = ExpectedContent(bytes)
              /\ \E i \in DOMAIN bytes : bytes[i].signature = call.record.signature

\* C24: invocations of doGenerate and doStream that overlap on one instance
\* do not interfere: under every interleaving each one's wire messages,
\* accumulator, events and verification record are those it has alone.
C24_NoInterference == \A c \in CallIds : AsAlone(c)

\* two streaming invocations on different conversations, both with bytes
\* received, one of them ended with a record
C24_Witness ==
    /\ invocations[1].kind = "doStream" /\ invocations[2].kind = "doStream"
    /\ invocations[1].prompt # invocations[2].prompt
    /\ invocations[1].pc = "streaming" /\ invocations[1].stream.reads = 2
    /\ invocations[1].stream.buffer # << >>
    /\ invocations[2].pc = "done" /\ invocations[2].record.built
    /\ invocations[1].received # invocations[2].received

\* the authenticated requests of the current call
AuthenticatedRequests == net.primaryRequests + net.reasoningRequests

\* C23: in wallet mode every authenticated request of a call (primary
\* completion, streaming call, reasoning-model call) comes after a grant
\* challenge fetched in that same call: a call that is about to send or has
\* sent its request has fetched exactly one challenge, none is carried over.
C23_FreshGrantPerRequest ==
    ~useApiKeyAuth =>
        /\ (pc \in { "qwen_fetch", "gen_fetch", "stream_fetch" }) =>
              (net.grantFetches = 1 /\ AuthenticatedRequests = 0)
        /\ AuthenticatedRequests >= 1 =>
              net.grantFetches = AuthenticatedRequests

\* a wallet-mode reasoning-model request made after its own challenge
C23_Witness ==
    /\ ~useApiKeyAuth
    /\ net.reasoningRequests = 1
    /\ net.grantFetches = 1

\* C22 (as the specification states it): when the abort signal fires during
\* a streaming call, the call still closes its stream, and the unparsed
\* partial line is dropped without an event.
C22_AbortStillCloses ==
    (op = "doStream" /\ pc = "done" /\ stream.aborted) =>
        /\ stream.closed
        /\ EmittedDeltas = ExpectedDeltas(stream.received)

\* the bytes hold a newline-terminated data line that is no JSON, or the
\* sentinel line
SkippedLineAt(bytes, i) ==
    /\ bytes[i].k \in { "bad", "done" }
    /\ i > 1 /\ bytes[i - 1].k = "prefix"
    /\ i < Len(bytes) /\ bytes[i + 1].k = "nl"

\* the events of the text part: everything between text-start and text-end
TextPartEvents ==
    SelectSeq(stream.events,
              LAMBDA ev : ev.type \notin { "stream-start", "text-start", "text-end",
                                           "response-metadata", "finish" })

-----------------------------------------------------------------------------
(* The message adapter on conversations of every shape *)

Digits == << "0", "1", "2", "3", "4", "5", "6", "7", "8", "9" >>

\* the output of the tool call with the given id
ResultText(id) == << "r", Digits[id + 1] >>

\* an id no tool call of the conversation has
OrphanId == 9

RECURSIVE SeqOfSet(_)
\* the ids of a set, in increasing order
SeqOfSet(S) ==
    IF S = { } THEN << >>
    ELSE LET least == CHOOSE x \in S : \A y \in S : x <= y
         IN  << least >> \o SeqOfSet(S \ { least })

\* The accumulated-turn conversation: a system part, a user part, one assistant
\* part holding an optional text and n tool calls, one tool part holding the
\* results of the calls in `matched` (and, if `orphan`, a result whose id
\* matches no call), and then an optional assistant part holding only `trail`.
AdapterPrompt(lead, n, matched, orphan, trail) ==
    LET text == IF lead THEN << Item("text", 0, "", << "t" >>) >> ELSE << >>
        calls == [i \in 1..n |-> Item("tool-call", i, "getQuote", << "a" >>)]
        ids == SeqOfSet(matched) \o (IF orphan THEN << OrphanId >> ELSE << >>)
        results == [k \in 1..Len(ids) |->
                        Item("tool-result", ids[k], "", ResultText(ids[k]))]
    IN  << Part("system", << "s" >>, << >>),
           Part("user", << >>, << Item("text", 0, "", << "u" >>) >>) >>
        \o (IF text \o calls = << >> THEN << >>
            ELSE << Part("assistant", << >>, text \o calls) >>)
        \o (IF results = << >> THEN << >> ELSE << Part("tool", << >>, results) >>)
        \o (IF trail = << >> THEN << >>
            ELSE << Part("assistant", << >>, << Item("text", 0, "", trail) >>) >>)

AdapterPrompts ==
    UNION { { AdapterPrompt(lead, n, matched, orphan, trail) :
                lead \in BOOLEAN, orphan \in BOOLEAN,
                trail \in { << >>, << "f" >>, << " " >> },
                matched \in SUBSET (1..n) } : n \in 0..MaxAdapterCalls }

\* conversations that go on after a tool turn: the caller's next user entry
FollowUpPrompts ==
    { AdapterPrompt(FALSE, n, 1..n, FALSE, << >>)
        \o << Part("user", << >>, << Item("text", 0, "", << "v" >>) >>) >> :
      n \in 1..MaxAdapterCalls }

\* a provider with an API key and no verification callback
InitAdapter ==
    /\ envDRY_RUN = "true"
    /\ envTEST_MODE = "false"
    /\ envNODE_ENV = "development"
    /\ ENV_CONFIG = LoadEnvConfig(envDRY_RUN, envTEST_MODE, envNODE_ENV)
    /\ useApiKeyAuth = TRUE
    /\ hasOnVerification = FALSE
    /\ Idle

NextAdapter ==
    \/ \E prompt \in AdapterPrompts \cup FollowUpPrompts : DoGenerate(prompt)
    \/ BuildAuthFields("ok")
    \/ \E response \in PrimaryResponses : CallPrimary(response)
    \/ Reset

SpecAdapter == InitAdapter /\ [][NextAdapter]_vars

-----------------------------------------------------------------------------
(* Properties of the message adapter *)

RECURSIVE AllItems(_)
\* every content item of a conversation, in order
AllItems(prompt) ==
    IF prompt = << >> THEN << >> ELSE Head(prompt).items \o AllItems(Tail(prompt))

\* the tool calls of a conversation, in call order
PromptCalls(prompt) == SelectSeq(AllItems(prompt), LAMBDA c : c.type = "tool-call")

\* the call ids for which the conversation holds a result
PromptResultIds(prompt) ==
    { AllItems(prompt)[k].toolCallId :
        k \in { x \in DOMAIN AllItems(prompt) : AllItems(prompt)[x].type = "tool-result" } }

\* a conversation has been converted
Converted == op = "doGenerate" /\ callPrompt # << >>

\* the positions of the wire messages that carry tool calls
CallPositions == { i \in DOMAIN messages : messages[i].tool_calls # << >> }

\* C13: for a conversation with N tool calls and results for some of them, the
\* wire list holds exactly N assistant messages that carry tool calls, each
\* with exactly one call, in call order; a call that has a result is followed
\* at once by the one tool message carrying that result, and a call without a
\* result by no tool message.
C13_OneCallPerMessageThenItsResult ==
    Converted =>
        LET calls == PromptCalls(callPrompt)
            results == PromptResultIds(callPrompt)
            carrying == SelectSeq(messages, LAMBDA m : m.tool_calls # << >>)
        IN  /\ Len(carrying) = Len(calls)
            /\ \A k \in DOMAIN carrying :
                  /\ carrying[k].role = "assistant"
                  /\ Len(carrying[k].tool_calls) = 1
                  /\ carrying[k].tool_calls[1].id = calls[k].toolCallId
            /\ \A i \in CallPositions :
                  LET id == messages[i].tool_calls[1].id
                  IN  IF id \in results
                      THEN /\ i < Len(messages)
                           /\ messages[i + 1].role = "tool"
                           /\ messages[i + 1].tool_call_id = id
                           /\ messages[i + 1].content = ResultText(id)
                      ELSE i = Len(messages) \/ messages[i + 1].role # "tool"
            /\ Cardinality({ i \in DOMAIN messages : messages[i].role = "tool" })
                  = Cardinality({ k \in DOMAIN calls : calls[k].toolCallId \in results })

\* C13 witness: three calls, the second still without a result
C13_Witness ==
    /\ Converted
    /\ Len(PromptCalls(callPrompt)) = 3
    /\ PromptResultIds(callPrompt) = { 1, 3 }
    /\ \E i \in CallPositions :
          /\ messages[i].tool_calls[1].id = 2
          /\ messages[i - 1].role = "tool"
          /\ messages[i + 1].tool_calls # << >>
          /\ messages[i + 2].role = "tool"

\* C14: in every wire list an assistant message that has tool calls has
\* content null, and every tool message names the id of a tool call of an
\* earlier assistant message of the list.
C14_NullContentAndEarlierCall ==
    Converted =>
        \A i \in DOMAIN messages :
            /\ messages[i].tool_calls # << >> =>
                  /\ messages[i].role = "assistant"
                  /\ messages[i].null
                  /\ messages[i].content = << >>
            /\ messages[i].role = "tool" =>
                  \E j \in 1..(i - 1) :
                      /\ messages[j].role = "assistant"
                      /\ \E c \in DOMAIN messages[j].tool_calls :
                            messages[j].tool_calls[c].id = messages[i].tool_call_id

\* C14 witness: a result whose id matches no call was handed in and left out
C14_Witness ==
    /\ Converted
    /\ OrphanId \in PromptResultIds(callPrompt)
    /\ Cardinality({ i \in DOMAIN messages : messages[i].role = "tool" }) = 2
    /\ \A i \in DOMAIN messages : messages[i].tool_call_id # OrphanId

\* the last part of the conversation is an assistant part holding text only,
\* and that text is not blank
TrailingText ==
    /\ callPrompt # << >>
    /\ LET last == callPrompt[Len(callPrompt)]
       IN  /\ last.role = "assistant"
           /\ Len(last.items) = 1
           /\ last.items[1].type = "text"
           /\ Trim(last.items[1].text) # << >>

\* C15 (as the specification states it): a trailing assistant text-only entry
\* appears in the wire messages as a plain assistant message with its text as
\* content, also when earlier turns carried tool calls.
C15_TrailingTextPassesThrough ==
    (Converted /\ TrailingText) =>
        \E i \in DOMAIN messages :
            messages[i] = Msg("assistant", FALSE,
                              callPrompt[Len(callPrompt)].items[1].text, << >>, 0)

-----------------------------------------------------------------------------
(* The signature verifier on its inputs *)

ContentValues ==
    { Content(FALSE, << "a" >>), Content(FALSE, << >>), Content(FALSE, << "b" >>),
      Content(TRUE, << >>) }

MessageLists ==
    UNION { [1..n -> ContentValues] : n \in 0..MaxContents }
    \cup { << Content(FALSE, << "X" >>) >> }

ChoiceLists ==
    { << Content(FALSE, << "Y" >>) >>,
      << Content(TRUE, << >>), Content(FALSE, << "Y" >>) >>,
      << >> }

Keys == { "A", "B" }

ExpectedSigners ==
    { Address("A", "checksum"), Address("A", "lower"), Address("B", "checksum") }

\* what the service signs: ChainID + ModelID + FullPrompt + FullOutput
SignedMessage(msgs, model, choices, chainId) ==
    chainId \o model
            \o Concat([i \in DOMAIN msgs |-> msgs[i].text])
            \o Concat([i \in DOMAIN choices |-> choices[i].text])

\* the signatures a response may carry for the message `signed`
Signatures(signed) ==
    { Signature("sig", key, signed, prefixed) : key \in Keys, prefixed \in BOOLEAN }
    \cup { Signature("sig", "A", signed \o << "!" >>, TRUE) }
    \cup { Signature("malformed", "", << >>, prefixed) : prefixed \in BOOLEAN }
    \cup { Signature("missing", "", << >>, FALSE) }

\* the input built from its parts, signed as the service signs
VerifyInput(has, msgs, choices, expected, signature) ==
    VerifyData(VerifyRequest(has, msgs), VerifyResponse(<< "m" >>, choices, signature),
               << "1" >>, expected)

\* a caller runs verifySignature(data)
VerifySignature ==
    /\ pc = "idle"
    /\ ~verification.called
    /\ \E msgs \in MessageLists, choices \in ChoiceLists, expected \in ExpectedSigners :
          \E has \in { TRUE } \cup (IF msgs = << >> THEN { FALSE } ELSE { }),
             signature \in Signatures(SignedMessage(msgs, << "m" >>, choices, << "1" >>)) :
                LET data == VerifyInput(has, msgs, choices, expected, signature)
                IN  verification' = [called |-> TRUE, data |-> data,
                                     result |-> verifySignature(data)]
    /\ UNCHANGED << envVars, useApiKeyAuth, hasOnVerification, tradeVars, invocations, loop, pc, op,
                    callPrompt, messages, qwenContent, hasSignature, outcome,
                    resultText, net, stream >>

\* the caller has taken the result
VerifyReturn ==
    /\ verification.called
    /\ verification' = NoVerification
    /\ UNCHANGED << envVars, useApiKeyAuth, hasOnVerification, tradeVars, invocations, loop, pc, op,
                    callPrompt, messages, qwenContent, hasSignature, outcome,
                    resultText, net, stream >>

NextVerify ==
    \/ VerifySignature
    \/ VerifyReturn

SpecVerify == InitAdapter /\ [][NextVerify]_vars

-----------------------------------------------------------------------------
(* Properties of the signature verifier *)

\* verifySignature has run on a request that has its messages
Verified == verification.called /\ verification.data.request.hasMessages

\* the signature of the response was made over the message the service signs
SignedOverMessage ==
    LET data == verification.data
    IN  /\ data.response.signature.form = "sig"
        /\ data.response.signature.msg =
              SignedMessage(data.request.messages, data.response.model,
                            data.response.choices, data.chainId)

\* the input with the 0x prefix of its signature added or taken away
OtherPrefix(data) ==
    [data EXCEPT !.response.signature.prefixed = ~@]

\* C16: the reconstructed message is the chain id, the model id, every request
\* content in order and every choice content in order, null counting as the
\* empty string, with nothing between the parts: contents ["a", "", "b"] give
\* "ab", and chain id "1", model "m", prompt "X", output "Y" give "1mXY".
C16_PlainConcatenation ==
    Verified =>
        LET data == verification.data
            message == reconstructSignedMessage(data.request, data.response, data.chainId)
            wire == [i \in DOMAIN data.request.messages |->
                        Msg("user", data.request.messages[i].null,
                            data.request.messages[i].text, << >>, 0)]
        IN  /\ message = SignedMessage(data.request.messages, data.response.model,
                                       data.response.choices, data.chainId)
            /\ Len(message) = Len(data.chainId) + Len(data.response.model)
                              + Len(reconstructFullPrompt(data.request.messages))
                              + Len(reconstructFullOutput(data.response.choices))
            /\ buildRequestPrompt(wire) = reconstructFullPrompt(data.request.messages)
            /\ (data.request.messages = << Content(FALSE, << "a" >>), Content(FALSE, << >>),
                                           Content(FALSE, << "b" >>) >>)
                   => reconstructFullPrompt(data.request.messages) = << "a", "b" >>
            /\ (/\ data.request.messages = << Content(FALSE, << "X" >>) >>
                /\ data.response.choices = << Content(FALSE, << "Y" >>) >>)
                   => message = << "1", "m", "X", "Y" >>
            /\ ~verification.result.raised /\ verification.result.error = ""
                   => verification.result.reconstructedMessage = message

\* C16 witness: the message of contents "a", null, "b" and output "Y"
C16_Witness ==
    /\ Verified
    /\ verification.data.request.messages =
          << Content(FALSE, << "a" >>), Content(TRUE, << >>), Content(FALSE, << "b" >>) >>
    /\ verification.result.reconstructedMessage = << "1", "m", "a", "b", "Y" >>

\* C17: isValid holds exactly when the recovered address is the expected
\* signer's, letter case aside; a signature by A checked against expected
\* signer B is invalid with A's address recovered; and the result does not
\* depend on the signature carrying its 0x prefix.
C17_ValidIffSignerMatches ==
    verification.called =>
        LET data == verification.data
            result == verification.result
        IN  /\ result.isValid <=>
                  /\ result.recoveredAddress.id = result.expectedSigner.id
                  /\ result.recoveredAddress # ERROR
            /\ (Verified /\ SignedOverMessage /\ data.response.signature.key = "A"
                         /\ data.expectedSigner.id = "B")
                  => (~result.isValid /\ result.recoveredAddress = Address("A", "checksum"))
            /\ verifySignature(OtherPrefix(data)) = result

\* C17 witness: a signature without prefix, valid for a lower-case signer
C17_Witness ==
    /\ Verified
    /\ SignedOverMessage
    /\ ~verification.data.response.signature.prefixed
    /\ verification.data.expectedSigner.case = "lower"
    /\ verification.result.isValid

\* C18: verifySignature never raises: an exception during reconstruction or
\* recovery gives isValid false, recoveredAddress "ERROR" and the message of
\* the exception in error.
C18_VerifyNeverRaises ==
    verification.called =>
        /\ ~verification.result.raised
        /\ (\/ ~verification.data.request.hasMessages
            \/ verification.data.response.signature.form # "sig")
              => /\ ~verification.result.isValid
                 /\ verification.result.recoveredAddress = ERROR
                 /\ verification.result.error # ""

\* C18 witness: a malformed signature was answered with the error result
C18_Witness ==
    /\ verification.called
    /\ verification.data.response.signature.form = "malformed"
    /\ verification.result.recoveredAddress = ERROR
    /\ verification.result.error = "invalid signature"

-----------------------------------------------------------------------------
(* The order of the wire messages *)

\* the positions of the system and user entries of the conversation
PlainParts ==
    SelectSeq([p \in 1..Len(callPrompt) |-> p],
              LAMBDA p : callPrompt[p].role \in { "system", "user" })

\* the positions of the system and user messages of the wire list
WirePlain ==
    SelectSeq([i \in 1..Len(messages) |-> i],
              LAMBDA i : messages[i].role \in { "system", "user" })

\* the positions of the wire messages that carry a tool call, in order
WireCalls ==
    SelectSeq([i \in 1..Len(messages) |-> i], LAMBDA i : messages[i].tool_calls # << >>)

\* the position of the entry of the conversation that holds its c-th tool call
CallPart(c) ==
    CHOOSE q \in 1..Len(callPrompt) :
        /\ Len(PromptCalls(SubSeq(callPrompt, 1, q))) >= c
        /\ Len(PromptCalls(SubSeq(callPrompt, 1, q - 1))) < c

\* C26 (as the specification states it): the wire list keeps the order of the
\* conversation: system and user entries pass through one to one, and an entry
\* that comes after a tool-call turn comes after the assistant message of each
\* call of that turn.
C26_ConversationOrderKept ==
    Converted =>
        /\ Len(WirePlain) = Len(PlainParts)
        /\ Len(WireCalls) = Len(PromptCalls(callPrompt))
        /\ \A k \in 1..Len(PlainParts), c \in 1..Len(WireCalls) :
              (CallPart(c) < PlainParts[k]) <=> (WireCalls[c] < WirePlain[k])

-----------------------------------------------------------------------------
(* The EXECUTED sentinel and the results of the conversation *)

\* the conversation holds an executeSwap call whose result is there and is
\* not that of a blocked or failed execution
SwapSucceededInConversation ==
    \E c, r \in DOMAIN AllItems(callPrompt) :
        LET call == AllItems(callPrompt)[c]
            res == AllItems(callPrompt)[r]
        IN  /\ call.type = "tool-call" /\ call.toolName = "executeSwap"
            /\ res.type = "tool-result" /\ res.toolCallId = call.toolCallId
            /\ res.text # BlockedResult

\* C27 (as the specification states it): the EXECUTED sentinel is returned
\* only when the conversation holds an executeSwap call whose result is present
\* and reports a successful execution that was not a dry run.
C27_ExecutedOnlyAfterSuccess ==
    (Completed /\ resultText = ExecutedDecision) => SwapSucceededInConversation

-----------------------------------------------------------------------------
(* The signature and the usage of a streamed response *)

\* position i holds the JSON of a newline-terminated line "data: <json>"
IsJsonLine(bytes, i) ==
    /\ bytes[i].k = "json"
    /\ i > 1 /\ bytes[i - 1].k = "prefix"
    /\ (i = 2 \/ bytes[i - 2].k = "nl")
    /\ i < Len(bytes) /\ bytes[i + 1].k = "nl"

\* the last signature carried by a JSON line of the bytes, "" if none
LastSignature(bytes) ==
    LET at == { i \in DOMAIN bytes : IsJsonLine(bytes, i) /\ bytes[i].signature # "" }
    IN  IF at = { } THEN ""
        ELSE bytes[CHOOSE i \in at : \A j \in at : j <= i].signature

\* the last usage carried by a JSON line of the bytes, 0 if none
LastUsage(bytes) ==
    LET at == { i \in DOMAIN bytes : IsJsonLine(bytes, i) /\ bytes[i].usage # 0 }
    IN  IF at = { } THEN 0
        ELSE bytes[CHOOSE i \in at : \A j \in at : j <= i].usage

\* C28 (as the specification states it): the finish event of a streaming call
\* carries the last signature and the last usage that a JSON line of the
\* stream carried, whatever else the line holds, a line without a choices
\* array included.
C28_FinishCarriesLastSignature ==
    (StreamEnded /\ outcome = "returned") =>
        LET finish == stream.events[Len(stream.events)]
        IN  /\ finish.type = "finish"
            /\ finish.signature = LastSignature(stream.received)
            /\ finish.usage = LastUsage(stream.received)

-----------------------------------------------------------------------------
(* Quote, then swap *)

-----------------------------------------------------------------------------
(* One trading iteration at a time *)

\* the runs of runIteration that are in progress
RunsInProgress == { i \in DOMAIN loop.runs : loop.runs[i].pc # "done" }

\* C30 (as the specification states it): at most one trading iteration is in
\* progress at any time; the scheduler never starts the next one while the
\* previous one is still running.
C30_OneIterationAtATime == Cardinality(RunsInProgress) <= 1

====
